---- MODULE Spec2Model ----
(***************************************************************************)
(* GIS-test-app: Google Sheet -> row expansion -> HTML table / folium map  *)
(* -> ArcGIS feature layer.                                                *)
(*                                                                         *)
(*   process_google_sheet_data.py  process_google_sheet_data               *)
(*   app.py                        create_map_from_df, index               *)
(*   upload_data_to_arcgis.py      upload_data_to_arcgis                   *)
(*                                                                         *)
(* Text is a sequence of one-character strings.  The Cyrillic column names *)
(* of the sheet are transliterated (Data, Oblast, Misto, Znachennia k).    *)
(* A number is [k, m, e]: k = "num" stands for the decimal m / 10^e with   *)
(* no trailing zero in the fraction, k = "inf" for +-infinity (sign in m), *)
(* k = "nan" for NaN and k = "err" for text float() refuses.  The decimal  *)
(* is exact where the program uses binary doubles.                         *)
(***************************************************************************)
EXTENDS Integers, Sequences, FiniteSets, TLC

VARIABLES
    data,            \* sheet.get_all_records(): the list of record dicts
    pc,              \* position of the run
    ridx,            \* source_df.iterrows() position in process_google_sheet_data
    processed_rows,  \* processed_rows of process_google_sheet_data
    origin,          \* history: origin[j] = [rec, i], the record and loop index i that made processed_rows[j]
    processed_df,    \* the DataFrame process_google_sheet_data returned
    markers,         \* the CircleMarkers create_map_from_df added, in order
    marker_row,      \* history: marker_row[j] = DataFrame index of the row behind markers[j]
    features_to_add, \* features_to_add of upload_data_to_arcgis
    feature_row,     \* history: feature_row[j] = DataFrame index of the row behind features_to_add[j]
    chunk_i,         \* loop variable i of the chunk loop (0-based offset)
    calls,           \* history: the feature layer SDK calls made, in order
    layer,           \* the features the hosted layer holds
    sdk_failed,      \* history: connecting, finding the item/layer or a layer call failed entirely
    logged_critical, \* logger.exception at upload_data_to_arcgis's except Exception
    table_html,      \* index: whether the table was rendered
    map_html,        \* index: whether create_map_from_df returned a map
    error_message,   \* index: error_message ("" for None)
    logged_completed \* index logged "Upload to ArcGIS completed successfully."

vars == <<data, pc, ridx, processed_rows, origin, processed_df, markers, marker_row,
          features_to_add, feature_row, chunk_i, calls, layer, sdk_failed,
          logged_critical, table_html, map_html, error_message, logged_completed>>

procVars == <<ridx, processed_rows, origin, processed_df>>
mapVars == <<markers, marker_row, map_html>>
uploadVars == <<features_to_add, feature_row, chunk_i, calls, layer, sdk_failed, logged_critical>>
indexVars == <<table_html, error_message, logged_completed>>

-----------------------------------------------------------------------------
(* Bounds of the model *)

\* Most records in a sheet of the full run (Spec).
MaxRecords == 2
\* Most records in a sheet of the expansion run (SpecExpand).
MaxExpandRecords == 2

-----------------------------------------------------------------------------
(* Text and numbers *)

Digits == {"0", "1", "2", "3", "4", "5", "6", "7", "8", "9"}

DigitVal(c) ==
    CASE c = "0" -> 0 [] c = "1" -> 1 [] c = "2" -> 2 [] c = "3" -> 3 [] c = "4" -> 4
      [] c = "5" -> 5 [] c = "6" -> 6 [] c = "7" -> 7 [] c = "8" -> 8 [] c = "9" -> 9

RECURSIVE DigitsVal(_)
DigitsVal(s) ==
    IF s = <<>> THEN 0
    ELSE DigitsVal(SubSeq(s, 1, Len(s) - 1)) * 10 + DigitVal(s[Len(s)])

RECURSIVE Pow10(_)
Pow10(n) == IF n = 0 THEN 1 ELSE 10 * Pow10(n - 1)

\* str.replace(',', '.')
ReplaceComma(s) == [j \in 1..Len(s) |-> IF s[j] = "," THEN "." ELSE s[j]]

\* str.strip()
RECURSIVE Strip(_)
Strip(s) ==
    IF s = <<>> THEN s
    ELSE IF s[1] = " " THEN Strip(Tail(s))
    ELSE IF s[Len(s)] = " " THEN Strip(SubSeq(s, 1, Len(s) - 1))
    ELSE s

Num(m, e) == [k |-> "num", m |-> m, e |-> e]
Zero == Num(0, 0)
PosInf == [k |-> "inf", m |-> 1, e |-> 0]
NegInf == [k |-> "inf", m |-> -1, e |-> 0]
NaN == [k |-> "nan", m |-> 0, e |-> 0]
ParseError == [k |-> "err", m |-> 0, e |-> 0]

\* m / 10^e (m >= 0) without trailing zeros in the fraction
RECURSIVE Normal(_, _)
Normal(m, e) ==
    IF e > 0 /\ m % 10 = 0 THEN Normal(m \div 10, e - 1) ELSE Num(m, e)

Negate(n) == [n EXCEPT !.m = -n.m]

\* An unsigned decimal literal: digits with at most one ".", at least one digit.
ParseUnsigned(s) ==
    LET dots == {j \in 1..Len(s) : s[j] = "."}
        ok == /\ \A j \in 1..Len(s) : s[j] \in Digits \cup {"."}
              /\ Cardinality(dots) <= 1
              /\ \E j \in 1..Len(s) : s[j] \in Digits
    IN  IF ~ok THEN ParseError
        ELSE LET d == IF dots = {} THEN Len(s) + 1 ELSE CHOOSE j \in dots : TRUE
                 int == SubSeq(s, 1, d - 1)
                 frac == SubSeq(s, d + 1, Len(s))
             IN  Normal(DigitsVal(int \o frac), Len(frac))

\* The literal grammar float() and pandas' to_numeric share on the text the
\* inputs are drawn from: [sign] decimal | [sign] "inf" | [sign] "nan".
ParseLiteral(s) ==
    LET signed == s # <<>> /\ s[1] \in {"-", "+"}
        body == IF signed THEN Tail(s) ELSE s
        neg == signed /\ s[1] = "-"
    IN  IF body = <<"i", "n", "f">> THEN (IF neg THEN NegInf ELSE PosInf)
        ELSE IF body = <<"n", "a", "n">> THEN NaN
        ELSE LET n == ParseUnsigned(body)
             IN  IF n.k = "num" /\ neg THEN Negate(n) ELSE n

\* float(text): ValueError is the "err" result
float(s) == ParseLiteral(Strip(s))

\* pd.to_numeric(text, errors='coerce'): what does not parse is NaN
to_numeric(s) == LET n == ParseLiteral(s) IN IF n.k = "err" THEN NaN ELSE n

\* pd.notna
notna(n) == n.k # "nan"

\* a <= b for numbers that are not NaN
NumLeq(a, b) ==
    IF a.k = "inf" THEN (a.m < 0 \/ (b.k = "inf" /\ b.m > 0))
    ELSE IF b.k = "inf" THEN b.m > 0
    ELSE a.m * Pow10(b.e) <= b.m * Pow10(a.e)

\* n <= c and n >= c for an integer c (|c| <= 180); false on NaN like every
\* comparison with NaN.  Beyond seven decimals the mantissa is rounded
\* towards the far side first, which keeps the products within TLC's integers.
LeqInt(n, c) ==
    CASE n.k = "inf" -> n.m < 0
      [] n.k = "num" -> IF n.e <= 7 THEN n.m <= c * Pow10(n.e)
                        ELSE -((-n.m) \div Pow10(n.e - 7)) <= c * Pow10(7)
      [] OTHER -> FALSE

GeqInt(n, c) ==
    CASE n.k = "inf" -> n.m > 0
      [] n.k = "num" -> IF n.e <= 7 THEN n.m >= c * Pow10(n.e)
                        ELSE n.m \div Pow10(n.e - 7) >= c * Pow10(7)
      [] OTHER -> FALSE

\* abs(n) > c
AbsGt(n, c) == n.k \in {"num", "inf"} /\ (~LeqInt(n, c) \/ ~GeqInt(n, -c))

\* n == 0
IsZero(n) == n.k = "num" /\ n.m = 0

\* n > c
GtInt(n, c) == n.k \in {"num", "inf"} /\ ~LeqInt(n, c)

\* n / 10000000.0: seven more decimals
Div1e7(n) ==
    IF n.k # "num" THEN n
    ELSE IF n.m >= 0 THEN Normal(n.m, n.e + 7)
    ELSE Negate(Normal(-n.m, n.e + 7))

\* int(n) of a finite n: truncation towards zero
int(n) == IF n.m >= 0 THEN n.m \div Pow10(n.e) ELSE -((-n.m) \div Pow10(n.e))

-----------------------------------------------------------------------------
(* pandas.DataFrame(data): one column per key that any record has; a record *)
(* without the key holds NaN there.                                         *)

Columns(d) == UNION {DOMAIN d[r] : r \in 1..Len(d)}

NaNText == <<"n", "a", "n">>

\* str(row.get(col, default)) for row r of DataFrame(d)
RowGetStr(d, r, col, default) ==
    IF col \notin Columns(d) THEN default
    ELSE IF col \notin DOMAIN d[r] THEN NaNText
    ELSE d[r][col]

-----------------------------------------------------------------------------
(* process_google_sheet_data *)

value_columns ==
    << "Znachennia 1", "Znachennia 2", "Znachennia 3", "Znachennia 4", "Znachennia 5",
       "Znachennia 6", "Znachennia 7", "Znachennia 8", "Znachennia 9", "Znachennia 10" >>

ValueCols == {value_columns[c] : c \in 1..Len(value_columns)}

\* values[col] of the loop body for row r
ParsedValue(d, r, col) ==
    IF col \notin Columns(d) THEN Zero                       \* raw_value is None
    ELSE LET raw == RowGetStr(d, r, col, <<>>)
         IN  IF Strip(raw) = <<>> THEN Zero
             ELSE LET numeric_value == to_numeric(ReplaceComma(raw))
                  IN  IF notna(numeric_value) THEN numeric_value ELSE Zero

Values(d, r) == [col \in ValueCols |-> ParsedValue(d, r, col)]

\* max(values.values())
MaxOf(values) ==
    CHOOSE v \in {values[col] : col \in ValueCols} :
        \A col \in ValueCols : NumLeq(values[col], v)

\* int(max(...)) raises OverflowError on an infinity
IntRaises(n) == n.k = "inf"

\* the row count of `if max_value == 0: continue` and range(1, max_value + 1)
RangeLen(max_value) == IF max_value >= 1 THEN max_value ELSE 0

\* a slip: `i < original_value`
Indicator_Strict(i, original_value) ==
    IF NumLeq(Num(i, 0), original_value) /\ ~NumLeq(original_value, Num(i, 0)) THEN 1 ELSE 0

\* new_row[col_name] = 1 if i <= original_value else 0
Indicator(i, original_value) == IF NumLeq(Num(i, 0), original_value) THEN 1 ELSE 0

\* (Data, Oblast and Misto are copied as they are; the sheets of the model
\* hold text there)
new_row(d, r, values, i) ==
    [col \in {"Data", "Oblast", "Misto", "long", "lat"} \cup ValueCols |->
        CASE col = "Data" -> RowGetStr(d, r, "Data", <<>>)
          [] col = "Oblast" -> RowGetStr(d, r, "Oblast", <<>>)
          [] col = "Misto" -> RowGetStr(d, r, "Misto", <<>>)
          [] col = "long" -> ReplaceComma(RowGetStr(d, r, "long", <<"0">>))
          [] col = "lat" -> ReplaceComma(RowGetStr(d, r, "lat", <<"0">>))
          [] OTHER -> Indicator(i, values[col])]

\* the rows one pass of the outer loop appends
NewRows(d, r) ==
    LET values == Values(d, r)
        max_value == int(MaxOf(values))
    IN  [i \in 1..RangeLen(max_value) |-> new_row(d, r, values, i)]

\* where the rows of one pass go
Append_rows(rows, new) == rows \o new

\* if not data: return pd.DataFrame()
ProcessEmpty ==
    /\ pc = "process"
    /\ data = <<>>
    /\ processed_df' = <<>>
    /\ pc' = "process_returned"
    /\ UNCHANGED <<data, ridx, processed_rows, origin, mapVars, uploadVars, indexVars>>

\* one pass of `for _, row in source_df.iterrows()`
ProcessRecord ==
    /\ pc = "process"
    /\ ridx <= Len(data)
    /\ ~IntRaises(MaxOf(Values(data, ridx)))
    /\ LET new == NewRows(data, ridx)
       IN  /\ processed_rows' = Append_rows(processed_rows, new)
           /\ origin' = Append_rows(origin, [i \in 1..Len(new) |-> [rec |-> ridx, i |-> i]])
    /\ ridx' = ridx + 1
    /\ UNCHANGED <<data, pc, processed_df, mapVars, uploadVars, indexVars>>

\* the pass in which int(max(values.values())) raises OverflowError
ProcessRecordRaises ==
    /\ pc = "process"
    /\ ridx <= Len(data)
    /\ IntRaises(MaxOf(Values(data, ridx)))
    /\ pc' = "process_raised"
    /\ UNCHANGED <<data, procVars, mapVars, uploadVars, indexVars>>

\* return pd.DataFrame(processed_rows)
ProcessReturn ==
    /\ pc = "process"
    /\ data # <<>>
    /\ ridx > Len(data)
    /\ processed_df' = processed_rows
    /\ pc' = "process_returned"
    /\ UNCHANGED <<data, ridx, processed_rows, origin, mapVars, uploadVars, indexVars>>

-----------------------------------------------------------------------------
(* create_map_from_df *)

\* pd.to_numeric(df[col].astype(str).str.replace(',', '.'), errors='coerce')
ColumnNum(df, col) == [j \in 1..Len(df) |-> to_numeric(ReplaceComma(df[j][col]))]

\* df_for_map[col].max() > bound; max() skips NaN
ColumnMaxGt(column, bound) == \E j \in 1..Len(column) : GtInt(column[j], bound)

\* the lat_num / long_num column after the scale step
ScaledColumn(column, bound) ==
    IF ColumnMaxGt(column, bound)
    THEN [j \in 1..Len(column) |-> Div1e7(column[j])]
    ELSE column

lat_num(df) == ScaledColumn(ColumnNum(df, "lat"), 90)
long_num(df) == ScaledColumn(ColumnNum(df, "long"), 180)

\* rows dropna(subset=['lat_num', 'long_num']) keeps
MapKeeps(df, j) == notna(lat_num(df)[j]) /\ notna(long_num(df)[j])

\* .head(1000)
MAP_HEAD == 1000

\* the DataFrame indexes of the rows that get a marker, in order
MapRows(df) ==
    LET kept == SelectSeq([j \in 1..Len(df) |-> j], LAMBDA j : MapKeeps(df, j))
    IN  SubSeq(kept, 1, IF Len(kept) < MAP_HEAD THEN Len(kept) ELSE MAP_HEAD)

CircleMarker(df, j) ==
    [location |-> <<lat_num(df)[j], long_num(df)[j]>>,
     popup |-> <<df[j]["Misto"], df[j]["Data"]>>]

CreateMap ==
    /\ pc = "create_map"
    /\ marker_row' = MapRows(processed_df)
    /\ markers' = [n \in 1..Len(MapRows(processed_df)) |->
                      CircleMarker(processed_df, MapRows(processed_df)[n])]
    /\ map_html' = (MapRows(processed_df) # <<>>)
    /\ pc' = "upload_connect"
    /\ UNCHANGED <<data, procVars, uploadVars, indexVars>>

-----------------------------------------------------------------------------
(* upload_data_to_arcgis *)

\* chunk_size = 1000 in the source, scaled down so that an upload of a few
\* features takes several chunks
chunk_size == 2

field_mapping ==
    [col \in {"Data", "Oblast", "Misto", "long", "lat"} \cup ValueCols |->
        CASE col = "Data" -> "d_date"
          [] col = "Oblast" -> "t_region"
          [] col = "Misto" -> "t_city"
          [] col = "long" -> "long"
          [] col = "lat" -> "lat"
          [] col = "Znachennia 1" -> "i_value_1"
          [] col = "Znachennia 2" -> "i_value_2"
          [] col = "Znachennia 3" -> "i_value_3"
          [] col = "Znachennia 4" -> "i_value_4"
          [] col = "Znachennia 5" -> "i_value_5"
          [] col = "Znachennia 6" -> "i_value_6"
          [] col = "Znachennia 7" -> "i_value_7"
          [] col = "Znachennia 8" -> "i_value_8"
          [] col = "Znachennia 9" -> "i_value_9"
          [] col = "Znachennia 10" -> "i_value_10"]

\* if abs(lat) > 90: lat = lat / 10000000.0
ScaleLat(lat) == IF AbsGt(lat, 90) THEN Div1e7(lat) ELSE lat

\* if abs(lon) > 180: lon = lon / 10000000.0
ScaleLon(lon) == IF AbsGt(lon, 180) THEN Div1e7(lon) ELSE lon

\* a slip: the longitude is left unchecked
FinalValid_LatOnly(lat, lon) == GeqInt(lat, -90) /\ LeqInt(lat, 90)

\* -90 <= lat <= 90 and -180 <= lon <= 180
FinalValid(lat, lon) ==
    /\ GeqInt(lat, -90) /\ LeqInt(lat, 90)
    /\ GeqInt(lon, -180) /\ LeqInt(lon, 180)

\* lon == 0 and lat == 0
IsZeroPair(lon, lat) == IsZero(lon) /\ IsZero(lat)

\* the body of `for _, row in df.iterrows()`: the feature or the reason to skip
RowResult(row) ==
    LET lon_raw == Strip(row["long"])
        lat_raw == Strip(row["lat"])
        lon == float(lon_raw)
        lat == float(lat_raw)
    IN  IF lon_raw = <<>> \/ lat_raw = <<>> THEN [kind |-> "missing", lon |-> NaN, lat |-> NaN]
        ELSE IF lon.k = "err" \/ lat.k = "err" THEN [kind |-> "invalid", lon |-> NaN, lat |-> NaN]
        ELSE IF IsZeroPair(lon, lat) THEN [kind |-> "zero", lon |-> lon, lat |-> lat]
        ELSE IF ~FinalValid(ScaleLat(lat), ScaleLon(lon))
             THEN [kind |-> "out_of_range", lon |-> ScaleLon(lon), lat |-> ScaleLat(lat)]
        ELSE [kind |-> "feature", lon |-> ScaleLon(lon), lat |-> ScaleLat(lat)]

Feature(row, lon, lat) ==
    [geometry |-> [x |-> lon, y |-> lat, spatialReference |-> [wkid |-> 4326]],
     attributes |->
        [f \in {field_mapping[col] : col \in DOMAIN field_mapping} |->
            IF f = "long" THEN lon
            ELSE IF f = "lat" THEN lat
            ELSE row[CHOOSE col \in DOMAIN field_mapping : field_mapping[col] = f]]]

\* the DataFrame indexes of the rows that become a feature, in order
FeatureRows(df) ==
    SelectSeq([j \in 1..Len(df) |-> j], LAMBDA j : RowResult(df[j]).kind = "feature")

\* a slip: features_to_add[i:i + chunk_size + 1], chunks that overlap
Chunk_Overlap(features, i) ==
    SubSeq(features, i + 1,
           IF i + chunk_size + 1 < Len(features) THEN i + chunk_size + 1 ELSE Len(features))

\* chunk = features_to_add[i:i + chunk_size]
Chunk(features, i) ==
    SubSeq(features, i + 1, IF i + chunk_size < Len(features) THEN i + chunk_size ELSE Len(features))

\* what a where="1=1" delete leaves in the layer
Cleared(l) == <<>>

\* the adds of a chunk the server took: all but the refused positions
Added(chunk, refused) ==
    LET took == SelectSeq([j \in 1..Len(chunk) |-> j], LAMBDA j : j \notin refused)
    IN  [n \in 1..Len(took) |-> chunk[took[n]]]

Call(op, adds, refused, raised) ==
    [op |-> op, adds |-> adds, refused |-> refused, raised |-> raised]

\* gis = GIS(...); item = gis.content.get(item_id); item.layers[0]
UploadConnect ==
    /\ pc = "upload_connect"
    /\ pc' = "upload_clear"
    /\ UNCHANGED <<data, procVars, mapVars, uploadVars, indexVars>>

\* GIS(...) or gis.content.get raises: caught by `except Exception`, logged, return
UploadConnectRaises ==
    /\ pc = "upload_connect"
    /\ sdk_failed' = TRUE
    /\ logged_critical' = TRUE
    /\ pc' = "upload_returned"
    /\ UNCHANGED <<data, procVars, mapVars, features_to_add, feature_row, chunk_i, calls,
                   layer, indexVars>>

\* item not found or no layers: sys.exit(1); SystemExit is no Exception, so
\* neither upload_data_to_arcgis nor index catches it
UploadSysExit ==
    /\ pc = "upload_connect"
    /\ sdk_failed' = TRUE
    /\ pc' = "sys_exit"
    /\ UNCHANGED <<data, procVars, mapVars, features_to_add, feature_row, chunk_i, calls,
                   layer, logged_critical, indexVars>>

\* feature_layer.delete_features(where="1=1") before the rows are read
UploadClear ==
    /\ pc = "upload_clear"
    /\ layer' = Cleared(layer)
    /\ calls' = Append(calls, Call("delete_features", <<>>, {}, FALSE))
    /\ pc' = "upload_build"
    /\ UNCHANGED <<data, procVars, mapVars, features_to_add, feature_row, chunk_i,
                   sdk_failed, logged_critical, indexVars>>

\* the whole `for _, row in df.iterrows()` loop and `if not features_to_add: return`
UploadBuild ==
    /\ pc = "upload_build"
    /\ feature_row' = FeatureRows(processed_df)
    /\ features_to_add' =
          [n \in 1..Len(FeatureRows(processed_df)) |->
              LET row == processed_df[FeatureRows(processed_df)[n]]
              IN  Feature(row, RowResult(row).lon, RowResult(row).lat)]
    /\ pc' = IF FeatureRows(processed_df) = <<>> THEN "upload_returned" ELSE "upload_clear_again"
    /\ UNCHANGED <<data, procVars, mapVars, chunk_i, calls, layer, sdk_failed,
                   logged_critical, indexVars>>

\* the second feature_layer.delete_features(where="1=1")
UploadClearAgain ==
    /\ pc = "upload_clear_again"
    /\ layer' = Cleared(layer)
    /\ calls' = Append(calls, Call("delete_features", <<>>, {}, FALSE))
    /\ chunk_i' = 0
    /\ pc' = "upload_chunks"
    /\ UNCHANGED <<data, procVars, mapVars, features_to_add, feature_row,
                   sdk_failed, logged_critical, indexVars>>

\* one pass of the chunk loop: edit_features(adds=chunk) returns; the server
\* may have refused some of the adds (addResults with success false), which
\* the code only counts and logs
UploadChunk ==
    /\ pc = "upload_chunks"
    /\ chunk_i < Len(features_to_add)
    /\ LET chunk == Chunk(features_to_add, chunk_i)
       IN  \E refused \in SUBSET (1..Len(chunk)) :
              /\ layer' = layer \o Added(chunk, refused)
              /\ calls' = Append(calls, Call("edit_features", chunk, refused, FALSE))
    /\ chunk_i' = chunk_i + chunk_size
    /\ UNCHANGED <<data, pc, procVars, mapVars, features_to_add, feature_row,
                   sdk_failed, logged_critical, indexVars>>

\* the chunk loop is over: the function returns
UploadChunksDone ==
    /\ pc = "upload_chunks"
    /\ chunk_i >= Len(features_to_add)
    /\ pc' = "upload_returned"
    /\ UNCHANGED <<data, procVars, mapVars, uploadVars, indexVars>>

\* delete_features or edit_features raises: caught by `except Exception`,
\* logged with logger.exception, and the function returns None
SdkCallRaises ==
    /\ \/ pc \in {"upload_clear", "upload_clear_again"}
          /\ calls' = Append(calls, Call("delete_features", <<>>, {}, TRUE))
       \/ pc = "upload_chunks" /\ chunk_i < Len(features_to_add)
          /\ calls' = Append(calls, Call("edit_features", Chunk(features_to_add, chunk_i), {}, TRUE))
    /\ sdk_failed' = TRUE
    /\ logged_critical' = TRUE
    /\ pc' = "upload_returned"
    /\ UNCHANGED <<data, procVars, mapVars, features_to_add, feature_row, chunk_i,
                   layer, indexVars>>

-----------------------------------------------------------------------------
(* index *)

NoDataMessage == "Data was not obtained from Google Sheets."
ExceptMessage == "An error occurred while executing"

\* processed_df is empty: the else branch
IndexNoData ==
    /\ pc = "process_returned"
    /\ processed_df = <<>>
    /\ error_message' = NoDataMessage
    /\ pc' = "render"
    /\ UNCHANGED <<data, procVars, mapVars, uploadVars, table_html, logged_completed>>

\* processed_df.to_html(...)
IndexTable ==
    /\ pc = "process_returned"
    /\ processed_df # <<>>
    /\ table_html' = TRUE
    /\ pc' = "create_map"
    /\ UNCHANGED <<data, procVars, mapVars, uploadVars, error_message, logged_completed>>

\* upload_data_to_arcgis returned: logger.info("Upload to ArcGIS completed successfully.")
IndexUploadReturned ==
    /\ pc = "upload_returned"
    /\ logged_completed' = TRUE
    /\ pc' = "render"
    /\ UNCHANGED <<data, procVars, mapVars, uploadVars, table_html, error_message>>

\* except Exception as e, here for the OverflowError of process_google_sheet_data
IndexExcept ==
    /\ pc = "process_raised"
    /\ error_message' = ExceptMessage
    /\ pc' = "render"
    /\ UNCHANGED <<data, procVars, mapVars, uploadVars, table_html, logged_completed>>

\* return render_template('index.html', table=..., error=..., map_html=...)
Render ==
    /\ pc = "render"
    /\ pc' = "rendered"
    /\ UNCHANGED <<data, procVars, mapVars, uploadVars, indexVars>>

-----------------------------------------------------------------------------
(* The sheets the runs start from *)

\* a key the record does not have
NoKey == <<"no key">>

\* a record dict: the keys of `fields` that hold text
Record(fields) == [key \in {c \in DOMAIN fields : fields[c] # NoKey} |-> fields[key]]

\* a record with the given first and last value cell and coordinates, the
\* other value cells blank
Rec(v1, v10, lat, long) ==
    Record([col \in {"Data", "Oblast", "Misto", "long", "lat"} \cup ValueCols |->
        CASE col = "Data" -> <<"d">>
          [] col = "Oblast" -> <<"o">>
          [] col = "Misto" -> <<"m">>
          [] col = "long" -> long
          [] col = "lat" -> lat
          [] col = "Znachennia 1" -> v1
          [] col = "Znachennia 10" -> v10
          [] OTHER -> <<>>])

T_464702111 == <<"4", "6", "4", "7", "0", "2", "1", "1", "1">>
T_307306393 == <<"3", "0", "7", "3", "0", "6", "3", "9", "3">>
T_950000000 == <<"9", "5", "0", "0", "0", "0", "0", "0", "0">>
T_1900000000 == <<"1", "9", "0", "0", "0", "0", "0", "0", "0", "0">>
T_46c5 == <<"4", "6", ",", "5">>
T_30c5 == <<"3", "0", ",", "5">>
T_2c5 == <<"2", ",", "5">>
T_0c5 == <<"0", ",", "5">>
T_abc == <<"a", "b", "c">>
T_inf == <<"i", "n", "f">>
T_neg1 == <<"-", "1">>
T_900000000 == <<"9", "0", "0", "0", "0", "0", "0", "0", "0">>
T_1800000000 == <<"1", "8", "0", "0", "0", "0", "0", "0", "0", "0">>
T_neg464702111 == <<"-", "4", "6", "4", "7", "0", "2", "1", "1", "1">>

\* (lat, long) cells of the full run
CoordCells ==
    { <<T_464702111, T_307306393>>,   \* degrees * 10^7
      <<T_46c5, T_30c5>>,             \* degrees, comma decimals
      <<<<"0">>, <<"0">>>>,           \* no location recorded
      <<<<"0">>, T_30c5>>,            \* on the equator
      <<<<>>, T_30c5>>,               \* blank latitude
      <<T_46c5, NoKey>>,              \* no long key
      <<T_950000000, T_30c5>>,        \* 95 degrees after the division
      <<T_46c5, T_1900000000>>,       \* 190 degrees after the division
      <<T_neg464702111, T_30c5>>,     \* southern degrees * 10^7
      <<T_900000000, T_1800000000>>,  \* exactly 90 and 180 after the division
      <<<<"9", "0">>, <<"-", "1", "8", "0">>>>,  \* exactly on the bounds
      <<T_abc, T_30c5>> }             \* not a number

GeoRecords ==
    {Rec(<<"1">>, <<>>, c[1], c[2]) : c \in CoordCells}
    \cup {Rec(<<"2">>, <<>>, T_46c5, T_30c5), Rec(<<"2">>, <<>>, T_464702111, T_307306393),
          Rec(T_inf, <<>>, T_46c5, T_30c5)}

\* value cells of the expansion run: the first and the last value column
FirstValueCells == {<<"3">>, T_2c5, <<>>, T_neg1, T_abc, T_inf, NoKey}
LastValueCells == {<<>>, <<"3">>, <<"1">>, T_0c5}

ExpandRecords ==
    {Rec(v[1], v[2], T_46c5, T_30c5) : v \in FirstValueCells \X LastValueCells}
    \cup {Rec(<<"1">>, <<>>, T_46c5, NoKey)}

Tables(records, n) == UNION {[1..len -> records] : len \in 0..n}

\* what was in the layer before the run
OldFeature ==
    [geometry |-> [x |-> Num(1, 0), y |-> Num(1, 0), spatialReference |-> [wkid |-> 4326]],
     attributes |-> <<>>]

InitRest ==
    /\ pc = "process"
    /\ ridx = 1
    /\ processed_rows = <<>>
    /\ origin = <<>>
    /\ processed_df = <<>>
    /\ markers = <<>>
    /\ marker_row = <<>>
    /\ features_to_add = <<>>
    /\ feature_row = <<>>
    /\ chunk_i = 0
    /\ calls = <<>>
    /\ layer = <<OldFeature>>
    /\ sdk_failed = FALSE
    /\ logged_critical = FALSE
    /\ table_html = FALSE
    /\ map_html = FALSE
    /\ error_message = ""
    /\ logged_completed = FALSE

\* a request of the index page
Init == data \in Tables(GeoRecords, MaxRecords) /\ InitRest

\* process_google_sheet_data run on its own (the module's __main__)
InitExpand == data \in Tables(ExpandRecords, MaxExpandRecords) /\ InitRest

NextExpand ==
    \/ ProcessEmpty
    \/ ProcessRecord
    \/ ProcessRecordRaises
    \/ ProcessReturn

Next ==
    \/ ProcessEmpty
    \/ ProcessRecord
    \/ ProcessRecordRaises
    \/ ProcessReturn
    \/ IndexNoData
    \/ IndexTable
    \/ CreateMap
    \/ UploadConnect
    \/ UploadConnectRaises
    \/ UploadSysExit
    \/ UploadClear
    \/ UploadBuild
    \/ UploadClearAgain
    \/ UploadChunk
    \/ UploadChunksDone
    \/ SdkCallRaises
    \/ IndexUploadReturned
    \/ IndexExcept
    \/ Render

Spec == Init /\ [][Next]_vars

SpecExpand == InitExpand /\ [][NextExpand]_vars

-----------------------------------------------------------------------------
(* Properties *)

\* the number a claim reads in a value field of a record: the text with comma
\* decimals read as periods; a missing key, a blank and text that is no
\* finite number count as 0
FieldValue(rec, col) ==
    IF col \notin DOMAIN rec THEN Zero
    ELSE LET n == ParseLiteral(ReplaceComma(rec[col]))
         IN  IF n.k = "num" THEN n ELSE Zero

\* floor(max of the ten field values) when a field is > 0, otherwise 0
ExpectedRowCount(rec) ==
    LET floors == {FieldValue(rec, col).m \div Pow10(FieldValue(rec, col).e) : col \in ValueCols}
        top == CHOOSE f \in floors : \A g \in floors : g <= f
    IN  IF \E col \in ValueCols : FieldValue(rec, col).m > 0 THEN top ELSE 0

\* the rows of the returned DataFrame that record r made
RowsOf(r) == {j \in 1..Len(processed_df) : origin[j].rec = r}

ProcessOver == pc # "process"

\* C1: once process_google_sheet_data is over, every record of the sheet has
\* exactly floor(max of its field values) rows in the output when a field is
\* > 0, and none when every field is <= 0, blank, missing or unparseable.
C1_RowCountIsFloorOfMax ==
    ProcessOver =>
        \A r \in 1..Len(data) : Cardinality(RowsOf(r)) = ExpectedRowCount(data[r])

\* i <= v for a row index i and a field value v
IndexWithin(i, v) == i * Pow10(v.e) <= v.m

\* C2: every generated row, made at index i from a record, holds in each of the
\* ten value columns 1 when i <= the record's field value and 0 otherwise; a
\* column is a run of floor(value) ones followed by zeros, a column at the
\* record's maximum is 1 on every row, a negative or blank one 0 on every row.
C2_IndicatorIsUnary ==
    /\ \A j \in 1..Len(processed_rows) : \A c \in 1..10 :
          LET i == origin[j].i
              v == FieldValue(data[origin[j].rec], value_columns[c])
          IN  /\ processed_rows[j][value_columns[c]] = (IF IndexWithin(i, v) THEN 1 ELSE 0)
              /\ v.m <= 0 => processed_rows[j][value_columns[c]] = 0
              /\ (\A col \in ValueCols :
                     NumLeq(FieldValue(data[origin[j].rec], col), v))
                 => processed_rows[j][value_columns[c]] = 1
    /\ \A r \in 1..(ridx - 1) : \A c \in 1..10 :
          LET v == FieldValue(data[r], value_columns[c])
              ones == {j \in 1..Len(processed_rows) :
                          origin[j].rec = r /\ processed_rows[j][value_columns[c]] = 1}
          IN  /\ Cardinality(ones) = (IF v.m > 0 THEN v.m \div Pow10(v.e) ELSE 0)
              /\ \A j \in ones : origin[j].i <= Cardinality(ones)

\* Scenario E with a tie: value 1 = "2,5" and value 10 = "3" gave three rows,
\* the third with 0 in column 1 and 1 in column 10; a blank column is 0
C2_Witness ==
    /\ pc = "process_returned"
    /\ \E j \in 1..Len(processed_rows) :
          /\ origin[j].i = 3
          /\ "Znachennia 1" \in DOMAIN data[origin[j].rec]
          /\ data[origin[j].rec]["Znachennia 1"] = T_2c5
          /\ data[origin[j].rec]["Znachennia 10"] = <<"3">>
          /\ processed_rows[j]["Znachennia 1"] = 0
          /\ processed_rows[j]["Znachennia 10"] = 1
          /\ processed_rows[j]["Znachennia 2"] = 0

\* the rows a record makes as the only record of a sheet
OwnRows(rec) ==
    IF IntRaises(MaxOf(Values(<<rec>>, 1))) THEN <<>> ELSE NewRows(<<rec>>, 1)

RECURSIVE ConcatOwnRows(_, _)
ConcatOwnRows(d, r) ==
    IF r > Len(d) THEN <<>> ELSE OwnRows(d[r]) \o ConcatOwnRows(d, r + 1)

\* C3: the output is the concatenation, in source order, of each record's own
\* rows in ascending i, and the rows of a record do not depend on the other
\* records of the sheet.
C3_ConcatenationInSourceOrder ==
    ProcessOver =>
        /\ processed_df = ConcatOwnRows(data, 1)
        /\ \A a, b \in 1..Len(processed_df) :
              a < b => \/ origin[a].rec < origin[b].rec
                       \/ origin[a].rec = origin[b].rec /\ origin[a].i < origin[b].i

\* the feature loop of upload_data_to_arcgis has run
Built == calls # <<>> /\ ~calls[1].raised /\ pc # "upload_build"

\* a number that is out of [-bound, bound] also after the division by 10^7
StillOutside(n, bound) ==
    /\ n.k = "num"
    /\ AbsGt(n, bound)
    /\ AbsGt(Div1e7(n), bound)

\* C4: every feature has y in [-90, 90] and x in [-180, 180]; a row still out
\* of these bounds after the 10^7 correction makes no feature, and the row
\* lat=464702111, long=307306393 makes a feature at (46.4702111, 30.7306393).
C4_FeaturesWithinBounds ==
    /\ \A n \in 1..Len(features_to_add) :
          LET g == features_to_add[n].geometry
          IN  /\ g.y.k = "num" /\ -90 * Pow10(g.y.e) <= g.y.m /\ g.y.m <= 90 * Pow10(g.y.e)
              /\ g.x.k = "num" /\ -180 * Pow10(g.x.e) <= g.x.m /\ g.x.m <= 180 * Pow10(g.x.e)
    /\ Built =>
          \A j \in 1..Len(processed_df) :
             LET row == processed_df[j]
                 made == {n \in 1..Len(features_to_add) : feature_row[n] = j}
             IN  /\ (StillOutside(float(row["lat"]), 90) \/ StillOutside(float(row["long"]), 180))
                       => made = {}
                 /\ (row["lat"] = T_464702111 /\ row["long"] = T_307306393)
                       => /\ Cardinality(made) = 1
                          /\ \A n \in made :
                                /\ features_to_add[n].geometry.y = Num(464702111, 7)
                                /\ features_to_add[n].geometry.x = Num(307306393, 7)

\* a sheet with the scaled row and a row at 95 degrees north: one feature
C4_Witness ==
    /\ Built
    /\ Len(features_to_add) = 1
    /\ features_to_add[1].geometry.y = Num(464702111, 7)
    /\ features_to_add[1].geometry.x = Num(307306393, 7)
    /\ \E j \in 1..Len(processed_df) : processed_df[j]["lat"] = T_950000000

\* a row whose longitude and latitude are both exactly 0
ZeroRow(row) == IsZero(float(row["long"])) /\ IsZero(float(row["lat"]))

\* C5: a row with longitude and latitude both exactly 0 is behind no marker of
\* the map and behind no feature of the upload.
C5_ZeroPairNeverPlotted ==
    /\ \A n \in 1..Len(markers) : ~ZeroRow(processed_df[marker_row[n]])
    /\ \A n \in 1..Len(features_to_add) : ~ZeroRow(processed_df[feature_row[n]])

\* the axis value of a row corrected from that row's own value
OwnScale(n, bound) == IF AbsGt(n, bound) THEN Div1e7(n) ELSE n

\* C6: the map and the upload divide a row's latitude by 10^7 iff that row's
\* |latitude| > 90 and its longitude iff that row's |longitude| > 180, so a
\* row behind both a marker and a feature has the same position in both.
C6_SamePositionInMapAndSink ==
    /\ \A n \in 1..Len(markers) :
          LET row == processed_df[marker_row[n]]
          IN  markers[n].location = <<OwnScale(float(row["lat"]), 90),
                                      OwnScale(float(row["long"]), 180)>>
    /\ \A n \in 1..Len(markers) : \A f \in 1..Len(features_to_add) :
          marker_row[n] = feature_row[f]
             => markers[n].location = <<features_to_add[f].geometry.y,
                                        features_to_add[f].geometry.x>>

\* the record has its long and lat keys, and text in both
HasBothCoordinates(rec) ==
    \A key \in {"long", "lat"} : key \in DOMAIN rec /\ rec[key] # <<>>

\* C7: no row of a record whose long or lat key is missing or blank becomes a
\* feature.
C7_MissingCoordinateNeverUploaded ==
    \A n \in 1..Len(features_to_add) :
        HasBothCoordinates(data[origin[feature_row[n]].rec])

\* C8: when connecting, finding the item or layer, delete_features or
\* edit_features fails, the failure leaves upload_data_to_arcgis, so index
\* never logs the upload as completed, and the page it renders shows an error.
C8_SinkFailureIsRunLevelError ==
    sdk_failed =>
        /\ ~logged_completed
        /\ pc = "rendered" => error_message # ""

\* C9: whatever the value fields hold, process_google_sheet_data does not
\* raise, counts an unusable field as 0 and emits for every record the rows
\* its other fields give.
C9_UnusableFieldNeverRaises ==
    /\ pc # "process_raised"
    /\ pc = "process_returned" =>
          \A r \in 1..Len(data) : Cardinality(RowsOf(r)) = ExpectedRowCount(data[r])

\* upload_data_to_arcgis was called and is over, and no SDK call raised or
\* was refused in part
UploadCleanlyOver ==
    /\ pc \in {"upload_returned", "render", "rendered"}
    /\ calls # <<>>
    /\ ~sdk_failed
    /\ \A n \in 1..Len(calls) : calls[n].refused = {}

EditCalls == SelectSeq(calls, LAMBDA c : c.op = "edit_features")

RECURSIVE ConcatAdds(_)
ConcatAdds(cs) == IF cs = <<>> THEN <<>> ELSE Head(cs).adds \o ConcatAdds(Tail(cs))

\* C10: every delete_features call precedes every edit_features call; with no
\* failure the edit_features calls cut features_to_add, in order, into
\* ceil(n / chunk_size) chunks of 1..chunk_size features, the layer ends
\* holding exactly these features, and with no feature it ends empty with no
\* edit_features call.
C10_ClearThenChunkedAdds ==
    /\ \A a, b \in 1..Len(calls) :
          a < b => ~(calls[a].op = "edit_features" /\ calls[b].op = "delete_features")
    /\ UploadCleanlyOver =>
          /\ ConcatAdds(EditCalls) = features_to_add
          /\ \A n \in 1..Len(EditCalls) :
                Len(EditCalls[n].adds) >= 1 /\ Len(EditCalls[n].adds) <= chunk_size
          /\ Len(EditCalls) = (Len(features_to_add) + chunk_size - 1) \div chunk_size
          /\ layer = features_to_add

\* a clean upload of more features than one chunk holds, the last chunk short
C10_Witness ==
    /\ pc = "rendered"
    /\ UploadCleanlyOver
    /\ Len(EditCalls) >= 2
    /\ Len(EditCalls[Len(EditCalls)].adds) < chunk_size
    /\ layer = features_to_add

====
